---- MODULE Spec2Model ----
(***************************************************************************)
(* Passport photo layout generator: the two scripts of                     *)
(* passport_layout_project.                                                *)
(*                                                                         *)
(*   generate_passport_layout.py     ("v1": evenly spaced 2 x 3 grid,      *)
(*                                    solid guidelines, no error handling) *)
(*   generate_passport_layout_v2.py  ("v2": centred 3 x 2 block, dotted    *)
(*                                    guidelines, try/except around the    *)
(*                                    open and the save)                   *)
(*                                                                         *)
(* Both are one sequential pipeline: open, crop, resize, frame, paste the  *)
(* framed photo into every grid cell, save.  Spec runs either script on    *)
(* an input file drawn from a bounded set; SpecDots applies                *)
(* draw_dotted_rectangle to rectangles drawn from a bounded set.           *)
(*                                                                         *)
(* Numbers.  Images are <<width, height>>, boxes are                       *)
(* <<left, upper, right, lower>>, tuples are 1-indexed here (Python's      *)
(* t[0] is t[1]).  A Python float that the code computes as a quotient of  *)
(* integers is kept as the exact rational <<numerator, denominator>>:      *)
(*   - ASPECT_RATIO = 413 / 531 (= 7/9) is the double                      *)
(*     0x1.8e38e38e38e39p-1, which exceeds 7/9 by 0.11 ulp.                *)
(*   - w / h > ASPECT_RATIO on doubles decides as 531 w > 413 h does:      *)
(*     correctly rounded division is monotone, and two different           *)
(*     quotients w/h and 7/9 differ by at least 1/(9h), far more than an   *)
(*     ulp.                                                                *)
(*   - int(h * ASPECT_RATIO) = floor(413 h / 531) and                      *)
(*     int(w / ASPECT_RATIO) = floor(531 w / 413): the fractional part of  *)
(*     the exact value is a multiple of 1/9 (resp. 1/7), the rounding      *)
(*     error is below 2^-40 for every dimension below 2^12, and in the     *)
(*     integral case the double product or quotient rounds to the integer  *)
(*     itself (compared with Python over 1..20000: no difference).         *)
(***************************************************************************)
EXTENDS Integers, Sequences, FiniteSets

(***************************************************************************)
(* Bounds of the model.                                                    *)
(***************************************************************************)
\* Source images are MaxDim x MaxDim at most.
MaxDim == 20
\* Rectangles given to draw_dotted_rectangle: x0, y0 in 0..MaxOrigin and
\* x1, y1 in 0..MaxCoord.
MaxOrigin == 1
MaxCoord == 40

(***************************************************************************)
(* Constants of generate_passport_layout_v2.py.                            *)
(***************************************************************************)
PASSPORT_PHOTO_PX == <<413, 531>>
\* The float 413 / 531 as the rational <<numerator, denominator>>.
ASPECT_RATIO == <<PASSPORT_PHOTO_PX[1], PASSPORT_PHOTO_PX[2]>>
LAYOUT_PX == <<1200, 1800>>
GRID_ROWS == 3
GRID_COLS == 2
PHOTO_BORDER_PX == 20
GUIDELINE_WIDTH == 2
DOTTED_LINE_GAP == 10

(***************************************************************************)
(* Constants of generate_passport_layout.py.                               *)
(***************************************************************************)
passport_px == <<413, 531>>
border == 20
layout_size == <<1200, 1800>>
rows == 2
cols == 3

(***************************************************************************)
(* Arithmetic of the two scripts.                                          *)
(***************************************************************************)
Abs(n) == IF n < 0 THEN -n ELSE n

\* Mutant of WiderThan: the comparison turned round.
WiderThan_flipped(img, aspect_target) ==
    img[1] * aspect_target[2] < aspect_target[1] * img[2]

\* img.width / img.height > aspect_target
WiderThan(img, aspect_target) ==
    img[1] * aspect_target[2] > aspect_target[1] * img[2]

\* Mutant of new_width: the height divided by the ratio instead of multiplied.
new_width_inverted(img, aspect_target) ==
    (img[2] * aspect_target[2]) \div aspect_target[1]

\* int(img.height * aspect_target)
new_width(img, aspect_target) ==
    (img[2] * aspect_target[1]) \div aspect_target[2]

\* int(img.width / aspect_target)
new_height(img, aspect_target) ==
    (img[1] * aspect_target[2]) \div aspect_target[1]

\* Mutant of CropOffset: the difference not halved.
CropOffset_unhalved(original, target) == original - target

\* (img.width - new_width) // 2, (img.height - new_height) // 2
CropOffset(original, target) == (original - target) \div 2

\* The box crop_image_to_aspect_ratio hands to img.crop.
crop_image_to_aspect_ratio(img, aspect_target) ==
    IF WiderThan(img, aspect_target)
    THEN LET nw == new_width(img, aspect_target)
             left == CropOffset(img[1], nw)
         IN  <<left, 0, left + nw, img[2]>>
    ELSE LET nh == new_height(img, aspect_target)
             top == CropOffset(img[2], nh)
         IN  <<0, top, img[1], top + nh>>

\* The size of the image img.crop(box) returns.
BoxSize(box) == <<box[3] - box[1], box[4] - box[2]>>

(***************************************************************************)
(* v2: framed photo and centred block.                                     *)
(***************************************************************************)
final_photo_size ==
    <<PASSPORT_PHOTO_PX[1] + 2 * PHOTO_BORDER_PX,
      PASSPORT_PHOTO_PX[2] + 2 * PHOTO_BORDER_PX>>

\* Mutant of block_width: the rows taken for the columns.
block_width_rows == GRID_ROWS * final_photo_size[1]

block_width == GRID_COLS * final_photo_size[1]
block_height == GRID_ROWS * final_photo_size[2]
start_x == (LAYOUT_PX[1] - block_width) \div 2
start_y == (LAYOUT_PX[2] - block_height) \div 2

\* x = start_x + col * final_photo_size[0]
CellX(col) == start_x + col * final_photo_size[1]
\* y = start_y + row * final_photo_size[1]
CellY(row) == start_y + row * final_photo_size[2]

(***************************************************************************)
(* v2: dotted guidelines.  A point is <<x, y>> with each coordinate the    *)
(* rational <<numerator, denominator>> whose quotient the code computes.   *)
(***************************************************************************)
Max(a, b) == IF a < b THEN b ELSE a

\* int(length / (width + gap)) with length = (dist_x**2 + dist_y**2)**0.5:
\* the largest n with (n * (width + gap))^2 <= dist_x^2 + dist_y^2.  The
\* length lies between max(|dist_x|, |dist_y|) and |dist_x| + |dist_y|, which
\* bounds the search.
num_dots(dist_x, dist_y, width, gap) ==
    LET sq == dist_x * dist_x + dist_y * dist_y
    IN  CHOOSE n \in (Max(Abs(dist_x), Abs(dist_y)) \div (width + gap))
                     ..((Abs(dist_x) + Abs(dist_y)) \div (width + gap)) :
            /\ (n * (width + gap)) * (n * (width + gap)) <= sq
            /\ ((n + 1) * (width + gap)) * ((n + 1) * (width + gap)) > sq

\* Mutant of DotRange: range(num_dots + 1).
DotRange_inclusive(n) == 0..n

\* range(num_dots)
DotRange(n) == 0..(n - 1)

\* start_pos of segment i: start + dist * i / num_dots
start_pos(start_xy, dist_x, dist_y, i, n) ==
    <<<<start_xy[1] * n + dist_x * i, n>>,
      <<start_xy[2] * n + dist_y * i, n>>>>

\* Mutant of end_pos: the whole sub-segment drawn, (i + 1) / num_dots.
end_pos_full(start_xy, dist_x, dist_y, i, n) ==
    <<<<start_xy[1] * n + dist_x * (i + 1), n>>,
      <<start_xy[2] * n + dist_y * (i + 1), n>>>>

\* end_pos of segment i: start + dist * (i + 0.5) / num_dots
end_pos(start_xy, dist_x, dist_y, i, n) ==
    <<<<2 * start_xy[1] * n + dist_x * (2 * i + 1), 2 * n>>,
      <<2 * start_xy[2] * n + dist_y * (2 * i + 1), 2 * n>>>>

\* draw_dotted_line, the ZeroDivisionError: dividing by width + gap = 0, or
\* by num_dots = 0 inside the loop.
dotted_line_raises(start_xy, end_xy, width, gap) ==
    \/ width + gap = 0
    \/ LET n == num_dots(end_xy[1] - start_xy[1], end_xy[2] - start_xy[2], width, gap)
       IN  \E i \in DotRange(n) : n = 0

\* draw_dotted_line, the segments it hands to draw.line when it does not
\* raise.
dotted_line_segments(start_xy, end_xy, width, gap) ==
    LET dist_x == end_xy[1] - start_xy[1]
        dist_y == end_xy[2] - start_xy[2]
        n == num_dots(dist_x, dist_y, width, gap)
    IN  {[i |-> i,
          from |-> start_pos(start_xy, dist_x, dist_y, i, n),
          to |-> end_pos(start_xy, dist_x, dist_y, i, n)] : i \in DotRange(n)}

\* draw_dotted_line, the number of draw.line calls: one per pass of the loop.
dotted_line_count(start_xy, end_xy, width, gap) ==
    Cardinality(DotRange(
        num_dots(end_xy[1] - start_xy[1], end_xy[2] - start_xy[2], width, gap)))

\* draw_dotted_line: whether it raises, and the segments drawn.
draw_dotted_line(start_xy, end_xy, width, gap) ==
    IF dotted_line_raises(start_xy, end_xy, width, gap)
    THEN [raised |-> TRUE, lines |-> {}]
    ELSE [raised |-> FALSE,
          lines |-> dotted_line_segments(start_xy, end_xy, width, gap)]

\* The four draw_dotted_line calls of draw_dotted_rectangle, in order:
\* <<start, end>> of each side.
RectangleSides(xy) ==
    <<<<<<xy[1], xy[2]>>, <<xy[3], xy[2]>>>>,
      <<<<xy[3], xy[2]>>, <<xy[3], xy[4]>>>>,
      <<<<xy[3], xy[4]>>, <<xy[1], xy[4]>>>>,
      <<<<xy[1], xy[4]>>, <<xy[1], xy[2]>>>>>>

\* Whether the draw_dotted_line call for side s of the rectangle raises.
side_raises(xy, s, width, gap) ==
    dotted_line_raises(RectangleSides(xy)[s][1], RectangleSides(xy)[s][2], width, gap)

\* draw_dotted_rectangle: whether one of its four draw_dotted_line calls
\* raises, and the number of segments drawn on each side (a side after one
\* that raised is never drawn).
draw_dotted_rectangle(xy, width, gap) ==
    [raised |-> \E s \in 1..4 : side_raises(xy, s, width, gap),
     dashes |-> [s \in 1..4 |->
                   IF \E b \in 1..s : side_raises(xy, b, width, gap)
                   THEN 0
                   ELSE dotted_line_count(RectangleSides(xy)[s][1],
                                          RectangleSides(xy)[s][2], width, gap)]]

(***************************************************************************)
(* v1: framed photo and evenly spaced grid.                                *)
(***************************************************************************)
v1_final_photo_size == <<passport_px[1] + 2 * border, passport_px[2] + 2 * border>>
x_spacing == (layout_size[1] - (cols * v1_final_photo_size[1])) \div (cols + 1)
y_spacing == (layout_size[2] - (rows * v1_final_photo_size[2])) \div (rows + 1)
\* x = x_spacing + col * (final_photo_size[0] + x_spacing)
v1_CellX(col) == x_spacing + col * (v1_final_photo_size[1] + x_spacing)
\* y = y_spacing + row * (final_photo_size[1] + y_spacing)
v1_CellY(row) == y_spacing + row * (v1_final_photo_size[2] + y_spacing)

(***************************************************************************)
(* State.                                                                  *)
(***************************************************************************)
VARIABLES
    script,          \* "v1" or "v2": the script that runs ("none" under SpecDots)
    pc,              \* the statement the script is at
    inputState,      \* the file at photo_path
    outputWritable,  \* whether layout.save can write output_path
    source_img,      \* <<width, height>> of the file's image
    cropped_img,     \* the box handed to img.crop, <<>> before the crop
    resized_img,     \* <<width, height>> after resize, <<>> before
    framed_photo,    \* <<width, height>> of the framed photo, <<>> before
    row, col,        \* the loop variables of the paste loop
    layout,          \* the pastes made on the canvas so far
    out,             \* what the process has printed, in order
    exitCode,        \* the exit status, meaningful once pc is "exited" or "done"
    outputFile,      \* "absent", "partial" or "written"
    xy,              \* SpecDots: the rectangle <<x0, y0, x1, y1>>
    dotted,          \* SpecDots: per side drawn so far, what draw_dotted_line did
    dotRaised        \* SpecDots: whether a draw_dotted_line call raised

vars == <<script, pc, inputState, outputWritable, source_img, cropped_img,
          resized_img, framed_photo, row, col, layout, out, exitCode,
          outputFile, xy, dotted, dotRaised>>

pipelineVars == <<script, pc, inputState, outputWritable, source_img,
                  cropped_img, resized_img, framed_photo, row, col, layout,
                  out, exitCode, outputFile>>

dotVars == <<xy, dotted, dotRaised>>

\* The file at photo_path: absent; present but not an image Image.open
\* identifies; an image whose header Image.open reads but whose pixel data
\* does not decode (Image.open is lazy: it reads the header only, and the
\* data is decoded by the first operation that needs it, img.crop); a good
\* image.
InputStates == {"missing", "unreadable", "truncated", "ok"}

Dims == 1..MaxDim

\* What the process prints.
MsgNotFound == "Error: Input file not found"
MsgCouldNotOpen == "Error: Could not open image file"
MsgCropping == "Cropping image to 3.5:4.5 aspect ratio..."
MsgCreating == "Creating layout on a 4x6 inch canvas..."
MsgSuccess == "Success! Output saved"
MsgCouldNotSave == "Error: Could not save PDF file"
MsgOutputSaved == "Output saved: passport_layout.pdf"
\* The interpreter's report of an exception nothing catches.
MsgTraceback == "Traceback (most recent call last)"

Init ==
    /\ script \in {"v1", "v2"}
    /\ pc = "open"
    /\ inputState \in InputStates
    /\ outputWritable \in BOOLEAN
    /\ source_img \in IF inputState \in {"truncated", "ok"}
                      THEN Dims \X Dims
                      ELSE {<<0, 0>>}
    /\ cropped_img = <<>>
    /\ resized_img = <<>>
    /\ framed_photo = <<>>
    /\ row = 0
    /\ col = 0
    /\ layout = {}
    /\ out = <<>>
    /\ exitCode = 0
    /\ outputFile = "absent"
    /\ xy = <<0, 0, 0, 0>>
    /\ dotted = <<>>
    /\ dotRaised = FALSE

\* sys.exit(1) after printing msg.
ExitWith(msg) ==
    /\ out' = Append(out, msg)
    /\ exitCode' = 1
    /\ pc' = "exited"

\* An exception that no try block covers: the interpreter prints the
\* traceback and the process ends with status 1.
Uncaught == ExitWith(MsgTraceback)

(***************************************************************************)
(* generate_passport_layout_v2.py: create_photo_layout.                    *)
(***************************************************************************)
\* Mutant of Open: the sys.exit(1) of the FileNotFoundError handler left out.
Open_no_exit ==
    /\ script = "v2"
    /\ pc = "open"
    /\ IF inputState = "missing"
       THEN /\ out' = Append(out, MsgNotFound)
            /\ pc' = "crop"
            /\ UNCHANGED exitCode
       ELSE IF inputState = "unreadable"
       THEN ExitWith(MsgCouldNotOpen)
       ELSE /\ pc' = "crop"
            /\ UNCHANGED <<out, exitCode>>
    /\ UNCHANGED <<script, inputState, outputWritable, source_img, cropped_img,
                   resized_img, framed_photo, row, col, layout, outputFile>>
    /\ UNCHANGED dotVars

\* try: source_img = Image.open(photo_path) / except FileNotFoundError /
\* except Exception
Open ==
    /\ script = "v2"
    /\ pc = "open"
    /\ IF inputState = "missing"
       THEN ExitWith(MsgNotFound)
       ELSE IF inputState = "unreadable"
       THEN ExitWith(MsgCouldNotOpen)
       ELSE /\ pc' = "crop"
            /\ UNCHANGED <<out, exitCode>>
    /\ UNCHANGED <<script, inputState, outputWritable, source_img, cropped_img,
                   resized_img, framed_photo, row, col, layout, outputFile>>
    /\ UNCHANGED dotVars

\* print("Cropping ..."); cropped_img = crop_image_to_aspect_ratio(...)
\* img.crop decodes the pixel data; no try block covers it.
Crop ==
    /\ script = "v2"
    /\ pc = "crop"
    /\ IF inputState = "truncated"
       THEN /\ out' = out \o <<MsgCropping, MsgTraceback>>
            /\ exitCode' = 1
            /\ pc' = "exited"
            /\ UNCHANGED cropped_img
       ELSE /\ cropped_img' = crop_image_to_aspect_ratio(source_img, ASPECT_RATIO)
            /\ out' = Append(out, MsgCropping)
            /\ pc' = "resize"
            /\ UNCHANGED exitCode
    /\ UNCHANGED <<script, inputState, outputWritable, source_img,
                   resized_img, framed_photo, row, col, layout, outputFile>>
    /\ UNCHANGED dotVars

\* resized_img = cropped_img.resize(PASSPORT_PHOTO_PX, LANCZOS)
\* Resizing an image with no pixels is outside what the source settles: the
\* library may raise (nothing catches it) or return an image.
Resize ==
    /\ script = "v2"
    /\ pc = "resize"
    /\ \/ /\ resized_img' = PASSPORT_PHOTO_PX
          /\ pc' = "frame"
          /\ UNCHANGED <<out, exitCode>>
       \/ /\ BoxSize(cropped_img)[1] <= 0 \/ BoxSize(cropped_img)[2] <= 0
          /\ Uncaught
          /\ UNCHANGED resized_img
    /\ UNCHANGED <<script, inputState, outputWritable, source_img, cropped_img,
                   framed_photo, row, col, layout, outputFile>>
    /\ UNCHANGED dotVars

\* framed_photo = Image.new("RGB", final_photo_size, "white"); paste
Frame ==
    /\ script = "v2"
    /\ pc = "frame"
    /\ framed_photo' = final_photo_size
    /\ pc' = "layout"
    /\ UNCHANGED <<script, inputState, outputWritable, source_img, cropped_img,
                   resized_img, row, col, layout, out, exitCode, outputFile>>
    /\ UNCHANGED dotVars

\* layout = Image.new("RGB", LAYOUT_PX, "white"); print("Creating ...");
\* the block and its start; the loop begins.
NewLayout ==
    /\ script = "v2"
    /\ pc = "layout"
    /\ layout' = {}
    /\ out' = Append(out, MsgCreating)
    /\ row' = 0
    /\ col' = 0
    /\ pc' = IF GRID_ROWS > 0 /\ GRID_COLS > 0 THEN "paste" ELSE "save"
    /\ UNCHANGED <<script, inputState, outputWritable, source_img, cropped_img,
                   resized_img, framed_photo, exitCode, outputFile>>
    /\ UNCHANGED dotVars

\* One pass of the loop body: layout.paste(framed_photo, (x, y)) and
\* draw_dotted_rectangle around it.
PasteCell ==
    /\ script = "v2"
    /\ pc = "paste"
    /\ \E guide \in {draw_dotted_rectangle(
                         <<CellX(col), CellY(row),
                           CellX(col) + final_photo_size[1],
                           CellY(row) + final_photo_size[2]>>,
                         GUIDELINE_WIDTH, DOTTED_LINE_GAP)} :
           /\ layout' = layout \cup
                  {[row |-> row, col |-> col, x |-> CellX(col), y |-> CellY(row),
                    w |-> framed_photo[1], h |-> framed_photo[2],
                    dashes |-> guide.dashes]}
           /\ IF guide.raised
              THEN /\ Uncaught
                   /\ UNCHANGED <<row, col>>
              ELSE /\ col' = IF col + 1 < GRID_COLS THEN col + 1 ELSE 0
                   /\ row' = IF col + 1 < GRID_COLS THEN row ELSE row + 1
                   /\ pc' = IF col + 1 < GRID_COLS \/ row + 1 < GRID_ROWS
                            THEN "paste" ELSE "save"
                   /\ UNCHANGED <<out, exitCode>>
    /\ UNCHANGED <<script, inputState, outputWritable, source_img, cropped_img,
                   resized_img, framed_photo, outputFile>>
    /\ UNCHANGED dotVars

\* try: layout.save(output_path, "PDF", ...) / except Exception
\* A save that fails may or may not have created the file before it failed.
Save ==
    /\ script = "v2"
    /\ pc = "save"
    /\ IF outputWritable
       THEN /\ outputFile' = "written"
            /\ out' = Append(out, MsgSuccess)
            /\ exitCode' = 0
            /\ pc' = "done"
       ELSE /\ outputFile' \in {"absent", "partial"}
            /\ ExitWith(MsgCouldNotSave)
    /\ UNCHANGED <<script, inputState, outputWritable, source_img, cropped_img,
                   resized_img, framed_photo, row, col, layout>>
    /\ UNCHANGED dotVars

(***************************************************************************)
(* generate_passport_layout.py: the module's statements.                   *)
(***************************************************************************)
\* layout = Image.new(...); img = Image.open(photo_path): no try block.
v1_Open ==
    /\ script = "v1"
    /\ pc = "open"
    /\ IF inputState \in {"missing", "unreadable"}
       THEN Uncaught
       ELSE /\ pc' = "crop"
            /\ UNCHANGED <<out, exitCode>>
    /\ UNCHANGED <<script, inputState, outputWritable, source_img, cropped_img,
                   resized_img, framed_photo, row, col, layout, outputFile>>
    /\ UNCHANGED dotVars

\* The inline crop: the same arithmetic as crop_image_to_aspect_ratio, with
\* aspect_target = passport_px[0] / passport_px[1].
v1_Crop ==
    /\ script = "v1"
    /\ pc = "crop"
    /\ IF inputState = "truncated"
       THEN /\ Uncaught
            /\ UNCHANGED cropped_img
       ELSE /\ cropped_img' =
                   IF WiderThan(source_img, passport_px)
                   THEN LET nw == new_width(source_img, passport_px)
                            left == CropOffset(source_img[1], nw)
                        IN  <<left, 0, left + nw, source_img[2]>>
                   ELSE LET nh == new_height(source_img, passport_px)
                            top == CropOffset(source_img[2], nh)
                        IN  <<0, top, source_img[1], top + nh>>
            /\ pc' = "resize"
            /\ UNCHANGED <<out, exitCode>>
    /\ UNCHANGED <<script, inputState, outputWritable, source_img,
                   resized_img, framed_photo, row, col, layout, outputFile>>
    /\ UNCHANGED dotVars

\* resized = img.resize(passport_px); framed = Image.new(...); framed.paste;
\* rows, cols = 2, 3 and the spacings; the loop begins.
v1_Frame ==
    /\ script = "v1"
    /\ pc = "resize"
    /\ \/ /\ resized_img' = passport_px
          /\ framed_photo' = v1_final_photo_size
          /\ row' = 0
          /\ col' = 0
          /\ pc' = IF rows > 0 /\ cols > 0 THEN "paste" ELSE "save"
          /\ UNCHANGED <<out, exitCode>>
       \/ /\ BoxSize(cropped_img)[1] <= 0 \/ BoxSize(cropped_img)[2] <= 0
          /\ Uncaught
          /\ UNCHANGED <<resized_img, framed_photo, row, col>>
    /\ UNCHANGED <<script, inputState, outputWritable, source_img, cropped_img,
                   layout, outputFile>>
    /\ UNCHANGED dotVars

\* One pass of the loop body: layout.paste(framed, (x, y)) and the solid
\* draw.rectangle around it (no dashes).
v1_PasteCell ==
    /\ script = "v1"
    /\ pc = "paste"
    /\ layout' = layout \cup
           {[row |-> row, col |-> col, x |-> v1_CellX(col), y |-> v1_CellY(row),
             w |-> framed_photo[1], h |-> framed_photo[2],
             dashes |-> [s \in 1..4 |-> 0]]}
    /\ col' = IF col + 1 < cols THEN col + 1 ELSE 0
    /\ row' = IF col + 1 < cols THEN row ELSE row + 1
    /\ pc' = IF col + 1 < cols \/ row + 1 < rows THEN "paste" ELSE "save"
    /\ UNCHANGED <<script, inputState, outputWritable, source_img, cropped_img,
                   resized_img, framed_photo, out, exitCode, outputFile>>
    /\ UNCHANGED dotVars

\* layout.save(output_pdf, "PDF", resolution=300.0); print(...): no try block.
v1_Save ==
    /\ script = "v1"
    /\ pc = "save"
    /\ IF outputWritable
       THEN /\ outputFile' = "written"
            /\ out' = Append(out, MsgOutputSaved)
            /\ exitCode' = 0
            /\ pc' = "done"
       ELSE /\ outputFile' \in {"absent", "partial"}
            /\ Uncaught
    /\ UNCHANGED <<script, inputState, outputWritable, source_img, cropped_img,
                   resized_img, framed_photo, row, col, layout>>
    /\ UNCHANGED dotVars

Next ==
    \/ Open
    \/ Crop
    \/ Resize
    \/ Frame
    \/ NewLayout
    \/ PasteCell
    \/ Save
    \/ v1_Open
    \/ v1_Crop
    \/ v1_Frame
    \/ v1_PasteCell
    \/ v1_Save

Spec == Init /\ [][Next]_vars

(***************************************************************************)
(* draw_dotted_rectangle on arbitrary rectangles.                          *)
(***************************************************************************)
InitDots ==
    /\ xy \in (0..MaxOrigin) \X (0..MaxOrigin) \X (0..MaxCoord) \X (0..MaxCoord)
    /\ dotted = <<>>
    /\ dotRaised = FALSE
    /\ script = "none"
    /\ pc = "idle"
    /\ inputState = "missing"
    /\ outputWritable = FALSE
    /\ source_img = <<0, 0>>
    /\ cropped_img = <<>>
    /\ resized_img = <<>>
    /\ framed_photo = <<>>
    /\ row = 0
    /\ col = 0
    /\ layout = {}
    /\ out = <<>>
    /\ exitCode = 0
    /\ outputFile = "absent"

\* The next draw_dotted_line call of draw_dotted_rectangle; an exception in
\* one call ends the function.
DrawSide ==
    /\ Len(dotted) < 4
    /\ ~dotRaised
    /\ LET side == RectangleSides(xy)[Len(dotted) + 1]
           r == draw_dotted_line(side[1], side[2], GUIDELINE_WIDTH, DOTTED_LINE_GAP)
       IN  /\ dotted' = Append(dotted, r)
           /\ dotRaised' = r.raised
    /\ UNCHANGED xy
    /\ UNCHANGED pipelineVars

NextDots == DrawSide

SpecDots == InitDots /\ [][NextDots]_vars

(***************************************************************************)
(* Properties.                                                             *)
(***************************************************************************)
\* The regions of two pastes share a pixel.
Overlap(p, q) ==
    /\ p.x < q.x + q.w
    /\ q.x < p.x + p.w
    /\ p.y < q.y + q.h
    /\ q.y < p.y + p.h

\* The source image, the crop box and the cropped size, once the crop ran.
Cropped == cropped_img # <<>>
SrcW == source_img[1]
SrcH == source_img[2]
CropW == cropped_img[3] - cropped_img[1]
CropH == cropped_img[4] - cropped_img[2]
\* The source is proportionally wider than 413 : 531.
SourceWider == 531 * SrcW > 413 * SrcH

\* C1: in the centred-block script a successful run has pasted exactly 6
\* framed photos, one per (row, col) cell of the 3 x 2 grid; every paste is
\* 453 x 571 with its top-left at (start_x + col * 453, start_y + row * 571),
\* lies fully inside the 1200 x 1800 canvas, and no two pastes share a pixel.
C1_CentredBlockInsideDisjoint ==
    script = "v2" =>
        /\ \A p \in layout :
              /\ p.row \in 0..2
              /\ p.col \in 0..1
              /\ p.w = 453
              /\ p.h = 571
              /\ p.x = start_x + p.col * 453
              /\ p.y = start_y + p.row * 571
              /\ 0 <= p.x
              /\ p.x + 453 <= 1200
              /\ 0 <= p.y
              /\ p.y + 571 <= 1800
        /\ \A p, q \in layout : p # q => ~Overlap(p, q)
        /\ pc = "done" =>
              /\ Cardinality(layout) = 6
              /\ \A r \in 0..2 : \A c \in 0..1 :
                     \E p \in layout : p.row = r /\ p.col = c

C1_Witness ==
    /\ script = "v2"
    /\ pc = "done"
    /\ exitCode = 0
    /\ Cardinality(layout) = 6

\* C2: in the evenly-spaced script every pasted framed photo lies fully
\* inside the 1200 x 1800 canvas and no two pasted photos overlap.
C2_EvenlySpacedInsideDisjoint ==
    script = "v1" =>
        /\ \A p \in layout :
              /\ 0 <= p.x
              /\ p.x + p.w <= 1200
              /\ 0 <= p.y
              /\ p.y + p.h <= 1800
        /\ \A p, q \in layout : p # q => ~Overlap(p, q)

\* C3: the cropped image matches the ratio 413 : 531 within one pixel: when
\* the width is cropped the height is kept and the width differs from
\* H * 413 / 531 by less than 1; when the height is cropped the width is
\* kept and the height differs from W * 531 / 413 by less than 1.
C3_RatioWithinOnePixel ==
    Cropped =>
        IF SourceWider
        THEN /\ CropH = SrcH
             /\ Abs(531 * CropW - 413 * SrcH) < 531
        ELSE /\ CropW = SrcW
             /\ Abs(413 * CropH - 531 * SrcW) < 413

C3_Witness ==
    /\ Cropped
    /\ SourceWider
    /\ 0 < CropW
    /\ CropW < SrcW
    /\ 531 * CropW # 413 * SrcH

\* C4: the crop is centred: the offset is floor((original - target) / 2), so
\* the margins removed on the two opposite sides differ by at most 1.
C4_CropCentred ==
    Cropped =>
        IF SourceWider
        THEN /\ 2 * cropped_img[1] <= SrcW - CropW
             /\ SrcW - CropW <= 2 * cropped_img[1] + 1
             /\ Abs(cropped_img[1] - (SrcW - cropped_img[3])) <= 1
        ELSE /\ 2 * cropped_img[2] <= SrcH - CropH
             /\ SrcH - CropH <= 2 * cropped_img[2] + 1
             /\ Abs(cropped_img[2] - (SrcH - cropped_img[4])) <= 1

C4_Witness ==
    /\ Cropped
    /\ SourceWider
    /\ cropped_img[1] > 0
    /\ SrcW - cropped_img[3] = cropped_img[1] + 1

\* C5: for every source image with width >= 1 and height >= 1 the crop
\* region crop_image_to_aspect_ratio yields has positive width and positive
\* height.
C5_CropNonEmpty ==
    (script = "v2" /\ Cropped /\ SrcW >= 1 /\ SrcH >= 1) =>
        (CropW > 0 /\ CropH > 0)

\* C6: in v2, when the input path does not exist the run prints the error
\* message and ends with a non-zero exit status; nothing after the open runs
\* and no output file is created.
C6_MissingInputExits ==
    (script = "v2" /\ inputState = "missing") =>
        /\ pc \in {"open", "exited"}
        /\ pc = "exited" => (exitCode # 0 /\ out = <<MsgNotFound>>)
        /\ cropped_img = <<>>
        /\ layout = {}
        /\ outputFile = "absent"

C6_Witness ==
    /\ script = "v2"
    /\ inputState = "missing"
    /\ pc = "exited"
    /\ exitCode = 1

\* The run ended by a caught failure: msg is the last thing printed and the
\* exit status is non-zero.
FailedWith(msg) ==
    /\ pc = "exited"
    /\ exitCode # 0
    /\ out # <<>>
    /\ out[Len(out)] = msg

\* C7: in v2 each failure kind is caught where the I/O fails, its message is
\* printed and the process ends with a non-zero status, and no later step
\* runs: a missing input and an unreadable input end the run at the open,
\* before any crop, paste or save; a failed save ends it at the save.
C7_FailuresCaughtAndTerminal ==
    script = "v2" =>
        /\ (inputState = "missing" /\ pc # "open") =>
              (FailedWith(MsgNotFound) /\ cropped_img = <<>> /\ layout = {}
               /\ outputFile = "absent")
        /\ (inputState \in {"unreadable", "truncated"} /\ pc # "open") =>
              (FailedWith(MsgCouldNotOpen) /\ cropped_img = <<>> /\ layout = {}
               /\ outputFile = "absent")
        /\ (inputState = "ok" /\ ~outputWritable /\ Cardinality(layout) = 6
            /\ pc \notin {"paste", "save"}) =>
              (FailedWith(MsgCouldNotSave) /\ outputFile # "written")

\* The two ends of side s of the rectangle xy, in drawing order.
SideEnds(s) ==
    CASE s = 1 -> <<xy[1], xy[2], xy[3], xy[2]>>
      [] s = 2 -> <<xy[3], xy[2], xy[3], xy[4]>>
      [] s = 3 -> <<xy[3], xy[4], xy[1], xy[4]>>
      [] s = 4 -> <<xy[1], xy[4], xy[1], xy[2]>>

\* The length of side s (the sides are axis-aligned).
SideLength(s) ==
    Abs(SideEnds(s)[3] - SideEnds(s)[1]) + Abs(SideEnds(s)[4] - SideEnds(s)[2])

\* C8: drawing a dotted rectangle never raises, whatever its corners: a side
\* of length zero or shorter than width + gap = 12 divides by nothing and
\* draws no segment.
C8_DottedRectangleNeverRaises ==
    /\ ~dotRaised
    /\ \A s \in 1..Len(dotted) :
          /\ ~dotted[s].raised
          /\ SideLength(s) < 12 => dotted[s].lines = {}

C8_Witness ==
    /\ Len(dotted) = 4
    /\ xy[1] = xy[3]
    /\ Abs(xy[4] - xy[2]) \in 1..11
    /\ ~dotRaised

\* The rational a lies between the integers lo and hi (in either order).
Between(a, lo, hi) ==
    /\ a[2] > 0
    /\ (IF lo < hi THEN lo ELSE hi) * a[2] <= a[1]
    /\ a[1] <= (IF lo < hi THEN hi ELSE lo) * a[2]

\* The rational a is the integer base plus dist * num / den.
IsAt(a, base, dist, num, den) ==
    a[1] * den = (base * den + dist * num) * a[2]

\* Along side s, point a comes strictly before point b.
Before(s, a, b) ==
    LET e == SideEnds(s)
        dx == e[3] - e[1]
        dy == e[4] - e[2]
    IN  dx * (b[1][1] * a[1][2] - a[1][1] * b[1][2])
          + dy * (b[2][1] * a[2][2] - a[2][1] * b[2][2]) > 0

\* C10: on a side of length L, with width 2 and gap 10, exactly
\* n = floor(L / 12) segments are drawn; segment i runs from the point at
\* fraction i / n to the point at fraction (i + 0.5) / n of the side, so it
\* lies between the two ends, and a segment ends before the next one starts.
C10_DashesFirstHalves ==
    \A s \in 1..Len(dotted) :
        LET e == SideEnds(s)
            segs == dotted[s].lines
            n == Cardinality(segs)
        IN  /\ 12 * n <= SideLength(s)
            /\ SideLength(s) < 12 * (n + 1)
            /\ {l.i : l \in segs} = 0..(n - 1)
            /\ \A l \in segs :
                  /\ IsAt(l.from[1], e[1], e[3] - e[1], l.i, n)
                  /\ IsAt(l.from[2], e[2], e[4] - e[2], l.i, n)
                  /\ IsAt(l.to[1], e[1], e[3] - e[1], 2 * l.i + 1, 2 * n)
                  /\ IsAt(l.to[2], e[2], e[4] - e[2], 2 * l.i + 1, 2 * n)
                  /\ Between(l.from[1], e[1], e[3])
                  /\ Between(l.from[2], e[2], e[4])
                  /\ Between(l.to[1], e[1], e[3])
                  /\ Between(l.to[2], e[2], e[4])
                  /\ Before(s, l.from, l.to)
            /\ \A l, m \in segs : l.i < m.i => Before(s, l.to, m.from)

C10_Witness ==
    /\ Len(dotted) = 4
    /\ Cardinality(dotted[3].lines) = 3
    /\ Cardinality(dotted[4].lines) = 2
    /\ xy[1] # 0

\* C9: the crop removes pixels along one axis only and stays inside the
\* source: a source wider than 413 : 531 keeps its full height and a
\* horizontal range inside [0, W]; any other source (the exact ratio
\* included) keeps its full width and a vertical range inside [0, H].
C9_CropOneAxisInsideSource ==
    Cropped =>
        IF SourceWider
        THEN /\ cropped_img[2] = 0
             /\ cropped_img[4] = SrcH
             /\ 0 <= cropped_img[1]
             /\ cropped_img[1] <= cropped_img[3]
             /\ cropped_img[3] <= SrcW
        ELSE /\ cropped_img[1] = 0
             /\ cropped_img[3] = SrcW
             /\ 0 <= cropped_img[2]
             /\ cropped_img[2] <= cropped_img[4]
             /\ cropped_img[4] <= SrcH

C9_Witness ==
    /\ Cropped
    /\ source_img = <<7, 9>>
    /\ cropped_img = <<0, 0, 7, 9>>

====
